---- MODULE Spec2Model ----
(***************************************************************************)
(* Model of the authentication core of the bugzot backend                  *)
(* (src/backend/app): the user table, the Redis key space (token blacklist *)
(* and rate counters), the token checks of core/security.py, the auth      *)
(* routes of api/v1/routes/auth.py and the admin user routes.              *)
(*                                                                         *)
(* Time is counted in whole seconds, as the code does: jose compares the   *)
(* integer exp claim with the integer clock, logout computes               *)
(* exp - int(now), Redis TTLs are whole seconds.                           *)
(***************************************************************************)
EXTENDS Integers, Sequences, FiniteSets, TLC

\* ------------------------------------------------------------------ bounds
NUsers == 2
NTokens == 2
NIps == 1
MaxTime == 3
NWorkers == 2

\* ------------------------------------------------------- program constants
MAX_REQUESTS == 5
WINDOW_SECONDS == 60
LOGIN_FAIL_EXPIRE == 60
ADMIN_ROLE_ID == 3
DEFAULT_ROLE_ID == 1
\* def check_rate_limit(ip: str): the number of parameters of the function
check_rate_limit_params == 1
\* create_activation_token(db, user_id, ttl_minutes=30)
ACTIVATION_TTL_MINUTES == 30

LOGIN_RATE_LIMIT_PREFIX == "login:rate"
REGISTER_RATE_LIMIT_PREFIX == "register:rate"
TOKEN_BLACKLIST_PREFIX == "blacklist:"
\* settings.ENVIRONMENT of the deployment ("test" and "development" switch
\* check_rate_limit off)
ENVIRONMENT == "production"

UserIds == 1..NUsers
JTIs == 1..NTokens
IPs == 1..NIps
Workers == 1..NWorkers
\* one mail address more than there are users, free for email updates
Addrs == 1..(NUsers + 1)

VARIABLES
    users,      \* the users table: id -> row
    redis,      \* the Redis key space: key -> [val, ttl_end]
    now,        \* the clock, in seconds
    resp,       \* the last HTTP response, with the request it answers
    inflight,   \* worker -> the PUT /users/{id} request it is handling
    loggedOut,  \* history: ids of the tokens a logout answered 204 for
    attempts,   \* history: login requests made per IP (all in one window)
    activation_keys,  \* the activation_keys table: a sequence of rows
    calls       \* worker -> the function call it is in the middle of

vars == <<users, redis, now, resp, inflight, loggedOut, attempts,
          activation_keys, calls>>

\* ------------------------------------------------------------------ emails
\* An email string is an address and the form it is written in:
\*   plain    lower-case, no surrounding whitespace
\*   upper    upper-case letters in it, no surrounding whitespace
\*   padded   lower-case, surrounded by whitespace
\*   padupper upper-case letters and surrounding whitespace
Forms == {"plain", "upper", "padded", "padupper"}
Email(a, f) == [addr |-> a, form |-> f]

\* str.strip()
Strip(e) ==
    Email(e.addr, CASE e.form = "padded" -> "plain"
                    [] e.form = "padupper" -> "upper"
                    [] OTHER -> e.form)

\* str.lower()
Lower(e) ==
    Email(e.addr, CASE e.form = "upper" -> "plain"
                    [] e.form = "padupper" -> "padded"
                    [] OTHER -> e.form)

\* pydantic EmailStr: the validated value has no surrounding whitespace and
\* keeps the case of the local part
EmailStr(e) == Strip(e)

\* the emails a request body can carry
RawEmails == {Email(a, f) : a \in Addrs, f \in Forms}

\* --------------------------------------------------------------- passwords
\* bcrypt: verify(p, hash(q)) iff p = q; user i was registered with password i
hash_password(p) == <<"bcrypt", p>>
verify_password(plain, hashed) == hashed = hash_password(plain)
Passwords == 0..NUsers

\* ------------------------------------------------------------------ tokens
\* A bearer token as the server sees it: id identifies the token string,
\* sig tells whether its signature verifies against JWT_SECRET_KEY, the rest
\* are its claims. sub: [k, v] with k = "int" (a decimal string), "str"
\* (another string) or "none" (no sub claim); jti = 0 stands for a token
\* without jti claim. jti is a uuid4 per issuance, so the signed tokens
\* carry pairwise different jti.
Token(id, sig, subk, subv, jti, exp) ==
    [id |-> id, sig |-> sig, sub |-> [k |-> subk, v |-> subv],
     jti |-> jti, exp |-> exp]

\* the tokens create_access_token built: {"sub": str(user.id), exp, jti}
IssuedToken(j) ==
    Token(j, "ok", "int", ((j - 1) % NUsers) + 1, j,
          MaxTime - 1 - ((j + 1) % 2))

\* the same claims under a signature that does not verify
ForgedToken(j) ==
    [IssuedToken(j) EXCEPT !.id = NTokens + j, !.sig = "bad"]

Tokens == {IssuedToken(j) : j \in JTIs} \cup {ForgedToken(j) : j \in JTIs}

\* correctly signed, unexpired tokens whose claims are not those of
\* create_access_token: no jti claim; no sub claim; a sub that is no decimal
\* string; a sub that is the id of no user
NoJtiToken == Token(2 * NTokens + 1, "ok", "int", 1, 0, MaxTime)
NoSubToken == Token(2 * NTokens + 2, "ok", "none", 0, NTokens + 1, MaxTime)
StrSubToken == Token(2 * NTokens + 3, "ok", "str", 0, NTokens + 2, MaxTime)
GhostUserToken ==
    Token(2 * NTokens + 4, "ok", "int", NUsers + 1, NTokens + 3, MaxTime)
OddTokens == {NoJtiToken, NoSubToken, StrSubToken, GhostUserToken}

\* a bearer string that is no JWT: jwt.decode raises JWTError on it
MalformedToken == Token(2 * NTokens + 5, "malformed", "none", 0, 0, 0)

\* a second token create_access_token built for the user of IssuedToken(j):
\* the same sub and exp under a jti of its own (uuid4 per call)
TwinToken(j) ==
    [IssuedToken(j) EXCEPT !.id = 2 * NTokens + 5 + j,
                           !.jti = 3 * NTokens + j]

\* ------------------------------------------------------------------- Redis
\* A key is <<prefix, kind, n>>: the string prefix + suffix, where the suffix
\* is the jti n, the whole token string of token n, or the IP n. A value is
\* [val, ttl_end]: the stored number (the blacklist sentinel "true" is 1) and
\* the second at which the key expires, -1 for a key without TTL.
\* a blacklist key that is the same for every jti
BlacklistKey_shared(jti) == <<TOKEN_BLACKLIST_PREFIX, "jti", 0>>

BlacklistKey(jti) == <<TOKEN_BLACKLIST_PREFIX, "jti", jti>>
BlacklistTokenKey(t) == <<TOKEN_BLACKLIST_PREFIX, "token", t.id>>
RateKey(prefix, ip) == <<prefix, "ip", ip>>

\* redis_client.get(key): None (0 here) when the key is absent
redis_get(r, key) == IF key \in DOMAIN r THEN r[key].val ELSE 0

\* redis_client.setex(key, ttl, value)
redis_setex(r, key, ttl, value) ==
    [k \in DOMAIN r \cup {key} |->
        IF k = key THEN [val |-> value, ttl_end |-> now + ttl] ELSE r[k]]

\* redis_client.incr(key): an absent key is created with 1 and no TTL
redis_incr(r, key) ==
    [k \in DOMAIN r \cup {key} |->
        IF k # key THEN r[k]
        ELSE IF key \in DOMAIN r THEN [r[key] EXCEPT !.val = @ + 1]
        ELSE [val |-> 1, ttl_end |-> -1]]

\* redis_client.expire(key, seconds)
redis_expire(r, key, seconds) ==
    IF key \in DOMAIN r
    THEN [r EXCEPT ![key].ttl_end = now + seconds]
    ELSE r

\* Redis drops the keys whose TTL has run out at second t
redis_purge(r, t) ==
    LET live == {k \in DOMAIN r : r[k].ttl_end = -1 \/ r[k].ttl_end > t}
    IN  [k \in live |-> r[k]]

\* ------------------------------------------------------------------- users
Row(email, pw, role, active) ==
    [email |-> email, hashed_password |-> hash_password(pw), role_id |-> role,
     is_active |-> active, is_deleted |-> FALSE, login_attempts |-> 0,
     last_login |-> -1, deleted_at |-> -1]

\* roles seeded by seed_roles: 1 reporter, 2 developer, 3 admin
RoleName(role_id) ==
    CASE role_id = 1 -> "reporter"
      [] role_id = 2 -> "developer"
      [] role_id = 3 -> "admin"
      [] OTHER -> "none"

\* db.query(User).filter(User.email.ilike(email)): the ids of the rows whose
\* email equals the pattern up to case; .first() returns one of them
get_user_by_email(email) ==
    {i \in DOMAIN users : Lower(users[i].email) = Lower(email)}

\* get_user_by_id without the filter User.is_deleted == False
get_user_by_id_unfiltered(user_id) ==
    {i \in DOMAIN users : i = user_id /\ users[i].is_active}

\* get_user_by_id without the filter User.id == user_id
get_user_by_id_any(user_id) ==
    {i \in DOMAIN users : users[i].is_active /\ ~users[i].is_deleted}

\* db.query(User).filter(id == user_id, is_active, not is_deleted).first():
\* the set holding the row's id, or the empty set
get_user_by_id(user_id) ==
    {i \in DOMAIN users :
        i = user_id /\ users[i].is_active /\ ~users[i].is_deleted}

\* ---------------------------------------------------------- token checks
Ok(v) == [ok |-> TRUE, status |-> 200, detail |-> "", val |-> v]
Raise(status, detail) ==
    [ok |-> FALSE, status |-> status, detail |-> detail, val |-> 0]

\* jwt.decode with options={"verify_exp": False}
jwt_decode_unexpiring(t) == t.sig # "ok"

\* jwt.decode(token, JWT_SECRET_KEY): JWTError when the signature does not
\* verify or exp < now
jwt_decode_fails(t) == t.sig # "ok" \/ t.exp < now

decode_access_token(t) ==
    IF redis_get(redis, BlacklistTokenKey(t)) # 0
    THEN Raise(401, "Token has been revoked.")
    ELSE IF jwt_decode_fails(t)
    THEN Raise(401, "Invalid authentication credentials.")
    ELSE Ok(t)

\* a missing jti raises ValueError, which no caller catches: status 500
get_token_jti(t) ==
    LET d == decode_access_token(t)
    IN  IF ~d.ok THEN d
        ELSE IF t.jti = 0 THEN Raise(500, "ValueError")
        ELSE Ok(t.jti)

get_current_user(t) ==
    LET j == get_token_jti(t)
    IN  IF ~j.ok THEN j
        ELSE IF redis_get(redis, BlacklistKey(j.val)) # 0
        THEN Raise(401, "Token has been revoked.")
        ELSE LET d == decode_access_token(t)
             IN  IF ~d.ok THEN d
                 ELSE IF t.sub.k # "int"
                 THEN Raise(401, "Invalid token payload.")
                 ELSE LET found == get_user_by_id(t.sub.v)
                      IN  IF found = {}
                          THEN Raise(401, "Inactive or missing user.")
                          ELSE Ok(CHOOSE i \in found : TRUE)

\* require_admin without the comparison of the role name
require_admin_any_role(t) ==
    LET u == get_current_user(t)
    IN  IF ~u.ok THEN u
        ELSE IF ~users[u.val].is_active
        THEN Raise(403, "Only admins can access this resource.")
        ELSE u

require_admin(t) ==
    LET u == get_current_user(t)
    IN  IF ~u.ok THEN u
        ELSE IF ~users[u.val].is_active
                \/ RoleName(users[u.val].role_id) # "admin"
        THEN Raise(403, "Only admins can access this resource.")
        ELSE u

\* --------------------------------------------------------------- responses
NoEmail == Email(0, "plain")
\* a response and the request it answers: op, the second it was made at, the
\* token presented (its id), user: the principal the token resolved to (for
\* login: the user a token was issued to), 0 for none
Response(op, status, detail) ==
    [op |-> op, at |-> now, status |-> status, detail |-> detail, tok |-> 0,
     user |-> 0, target |-> 0, ip |-> 0, email |-> NoEmail, pw |-> 0]

Principal(t) ==
    LET u == get_current_user(t) IN IF u.ok THEN u.val ELSE 0

Idle == [phase |-> "idle", tok |-> 0, id |-> 0, email |-> NoEmail,
         is_active |-> "unset", role_id |-> 0]

\* a worker that is in the middle of no call
NoCall == [fn |-> "none", ip |-> 0, user |-> 0, read |-> 0]

\* -------------------------------------------------------------------- Init
Init ==
    /\ users = [i \in UserIds |->
                  Row(Email(i, "plain"), i,
                      IF i = 1 THEN ADMIN_ROLE_ID ELSE DEFAULT_ROLE_ID, TRUE)]
    /\ redis = <<>>
    /\ now = 0
    /\ resp = Response("none", 0, "")
    /\ inflight = [w \in Workers |-> Idle]
    /\ loggedOut = {}
    /\ attempts = [ip \in IPs |-> 0]
    /\ activation_keys = <<>>
    /\ calls = [w \in Workers |-> NoCall]

\* ----------------------------------------------------------------- actions
\* GET /auth/me
get_me(t) ==
    LET u == get_current_user(t)
    IN  /\ resp' = [Response("me", u.status, u.detail) EXCEPT
                        !.tok = t.id, !.user = Principal(t)]
        /\ UNCHANGED <<users, redis, now, inflight, loggedOut, attempts,
                       activation_keys, calls>>

\* int(datetime.utcnow().timestamp()): utcnow() returns a naive datetime
\* and timestamp() reads a naive datetime as local time, so the result is
\* the epoch second minus the host's UTC offset `off` (0 on a host whose
\* time zone is UTC)
utcnow_timestamp(off) == now - off

\* POST /auth/logout. The dependency get_current_user runs first; the body
\* runs inside try ... except Exception, which turns whatever it raises into
\* 401 "Invalid token".
logout_body_at(t, off) ==
    LET d == decode_access_token(t)
        j == get_token_jti(t)
        ttl == t.exp - utcnow_timestamp(off)
    IN  IF ~d.ok \/ ~j.ok
        THEN [status |-> 401, detail |-> "Invalid token", redis |-> redis]
        ELSE IF ttl <= 0
        THEN [status |-> 204, detail |-> "", redis |-> redis]
        ELSE [status |-> 204, detail |-> "",
              redis |-> redis_setex(redis, BlacklistKey(j.val), ttl, 1)]

\* the body on a host whose time zone is UTC
logout_body(t) == logout_body_at(t, 0)

logout_user(t) ==
    LET u == get_current_user(t)
        b == logout_body(t)
        status == IF u.ok THEN b.status ELSE u.status
        detail == IF u.ok THEN b.detail ELSE u.detail
    IN  /\ redis' = IF u.ok THEN b.redis ELSE redis
        /\ resp' = [Response("logout", status, detail) EXCEPT
                        !.tok = t.id, !.user = Principal(t)]
        /\ loggedOut' = IF status = 204 THEN loggedOut \cup {t.id}
                        ELSE loggedOut
        /\ UNCHANGED <<users, now, inflight, attempts, activation_keys, calls>>

\* POST /auth/logout on a host whose local time is `off` ahead of UTC
logout_user_at(t, off) ==
    LET u == get_current_user(t)
        b == logout_body_at(t, off)
        status == IF u.ok THEN b.status ELSE u.status
        detail == IF u.ok THEN b.detail ELSE u.detail
    IN  /\ redis' = IF u.ok THEN b.redis ELSE redis
        /\ resp' = [Response("logout", status, detail) EXCEPT
                        !.tok = t.id, !.user = Principal(t)]
        /\ loggedOut' = IF status = 204 THEN loggedOut \cup {t.id}
                        ELSE loggedOut
        /\ UNCHANGED <<users, now, inflight, attempts, activation_keys, calls>>

\* POST /auth/logout while Redis is unreachable, from the call `lost` on:
\*   "get"   redis_client.get, the first statement of decode_access_token,
\*           raises redis ConnectionError; except JWTError in
\*           decode_access_token and get_token_jti does not catch it and the
\*           dependency get_current_user has no handler: status 500
\*   "setex" the reads still answer; redis_client.setex raises
\*           ConnectionError inside the try block of the route, whose except
\*           Exception turns it into 401 "Invalid token"
\* redis_client is a redis.Redis object, which is always true: the branch
\* that raises 503 is never taken.
logout_unreachable_outcome(t, lost) ==
    LET u == get_current_user(t)
        b == logout_body(t)
    IN  IF lost = "get" THEN Raise(500, "ConnectionError")
        ELSE IF ~u.ok THEN Raise(u.status, u.detail)
        ELSE IF b.redis = redis THEN Raise(b.status, b.detail)
        ELSE Raise(401, "Invalid token")

logout_user_unreachable(t, lost) ==
    LET out == logout_unreachable_outcome(t, lost)
    IN  /\ resp' = [Response("logout", out.status, out.detail) EXCEPT
                        !.tok = t.id,
                        !.user = IF lost = "get" THEN 0 ELSE Principal(t)]
        /\ loggedOut' = IF out.status = 204 THEN loggedOut \cup {t.id}
                        ELSE loggedOut
        /\ UNCHANGED <<users, redis, now, inflight, attempts,
                       activation_keys, calls>>

\* ------------------------------------------------------------ rate limiter
\* check_rate_limit(ip), the body of the function: the key is "rl:" + ip
check_rate_limit(r, ip) ==
    LET key == RateKey("rl:", ip)
        current == redis_get(r, key)
    IN  IF ENVIRONMENT = "test" \/ ENVIRONMENT = "development"
        THEN [ok |-> TRUE, redis |-> r]
        ELSE IF current # 0 /\ current >= MAX_REQUESTS
        THEN [ok |-> FALSE, redis |-> r]
        ELSE [ok |-> TRUE,
              redis |-> redis_expire(redis_incr(r, key), key, WINDOW_SECONDS)]

\* check_rate_limit(ip) run by worker k beside the other workers, first
\* half: current = r.get(key) and the comparison with MAX_REQUESTS, which
\* returns False (the caller answers 429) or goes on ...
check_rate_limit_get(k, ip) ==
    LET current == redis_get(redis, RateKey("rl:", ip))
        limited == current # 0 /\ current >= MAX_REQUESTS
    IN  /\ calls[k] = NoCall
        /\ ENVIRONMENT # "test" /\ ENVIRONMENT # "development"
        /\ calls' = IF limited THEN calls
                    ELSE [calls EXCEPT ![k] =
                            [fn |-> "check_rate_limit", ip |-> ip,
                             user |-> 0, read |-> current]]
        /\ resp' = IF limited
                   THEN [Response("check_rate_limit", 429, "") EXCEPT
                            !.ip = ip]
                   ELSE resp
        /\ UNCHANGED <<users, redis, now, inflight, loggedOut, attempts,
                       activation_keys>>

\* ... second half: r.incr(key); r.expire(key, WINDOW_SECONDS); return True
check_rate_limit_incr(k) ==
    LET key == RateKey("rl:", calls[k].ip)
    IN  /\ calls[k].fn = "check_rate_limit"
        /\ redis' = redis_expire(redis_incr(redis, key), key, WINDOW_SECONDS)
        /\ resp' = [Response("check_rate_limit", 200, "") EXCEPT
                        !.ip = calls[k].ip]
        /\ calls' = [calls EXCEPT ![k] = NoCall]
        /\ UNCHANGED <<users, now, inflight, loggedOut, attempts,
                       activation_keys>>

\* a call that binds both arguments and counts under the login key of the IP
call_check_rate_limit_login(r, args) ==
    [raised |-> "", ok |-> TRUE,
     redis |-> redis_incr(r, RateKey(LOGIN_RATE_LIMIT_PREFIX, args[2]))]

\* The call check_rate_limit(PREFIX, ip) of the routes and services: Python
\* binds the positional arguments to the parameters before the body runs and
\* raises TypeError when there are more arguments than parameters.
call_check_rate_limit(r, args) ==
    IF Len(args) # check_rate_limit_params
    THEN [raised |-> "TypeError", ok |-> FALSE, redis |-> r]
    ELSE LET c == check_rate_limit(r, args[1])
         IN  [raised |-> "", ok |-> c.ok, redis |-> c.redis]

\* ------------------------------------------------------------------- login
\* .first() of a query: one of the matching rows, 0 (None) when there is none
First(S) == IF S = {} THEN {0} ELSE S

\* increment_login_attempts / reset_login_attempts
increment_login_attempts(u) ==
    [users EXCEPT ![u].login_attempts = @ + 1]
reset_login_attempts(u) ==
    [users EXCEPT ![u].login_attempts = 0, ![u].last_login = now]

\* increment_login_attempts run by worker k beside the other workers. The
\* worker's session loaded the row (the query of get_user_by_email) and
\* holds the login_attempts it read ...
increment_login_attempts_load(k, u) ==
    /\ calls[k] = NoCall
    /\ ~users[u].is_deleted /\ users[u].is_active
    /\ users[u].login_attempts < MAX_REQUESTS
    /\ calls' = [calls EXCEPT ![k] =
                   [fn |-> "increment_login_attempts", ip |-> 0, user |-> u,
                    read |-> users[u].login_attempts]]
    /\ UNCHANGED <<users, redis, now, resp, inflight, loggedOut, attempts,
                   activation_keys>>

\* ... user.login_attempts += 1 on the loaded object and db.commit(), which
\* writes the new value: UPDATE users SET login_attempts = <read + 1>
increment_login_attempts_commit(k) ==
    LET u == calls[k].user
    IN  /\ calls[k].fn = "increment_login_attempts"
        /\ users' = [users EXCEPT ![u].login_attempts = calls[k].read + 1]
        /\ resp' = [Response("increment_login_attempts", 200, "") EXCEPT
                        !.user = u]
        /\ calls' = [calls EXCEPT ![k] = NoCall]
        /\ UNCHANGED <<redis, now, inflight, loggedOut, attempts,
                       activation_keys>>

\* reset_login_attempts for a user no worker is counting a failure of
reset_login_attempts_commit(u) ==
    /\ \A k \in Workers : calls[k] = NoCall
    /\ ~users[u].is_deleted /\ users[u].is_active
    /\ users' = reset_login_attempts(u)
    /\ resp' = [Response("reset_login_attempts", 200, "") EXCEPT !.user = u]
    /\ UNCHANGED <<redis, now, inflight, loggedOut, attempts,
                   activation_keys, calls>>

\* the failed-login bookkeeping: redis_client.incr(rate_key); expire(.., 60)
count_failed_login(r, rate_key) ==
    redis_expire(redis_incr(r, rate_key), rate_key, LOGIN_FAIL_EXPIRE)

\* What login_user does once the row `u` (0: no row) came back from
\* get_user_by_email, as [status, detail, users, redis, issue]
login_checks(r, rate_key, u, pw) ==
    IF u = 0 \/ users[u].is_deleted
    THEN [status |-> 401, detail |-> "Invalid credentials.", users |-> users,
          redis |-> count_failed_login(r, rate_key), issue |-> 0]
    ELSE IF ~users[u].is_active
    THEN [status |-> 403, detail |-> "Account is inactive or unverified.",
          users |-> users, redis |-> r, issue |-> 0]
    ELSE IF ~verify_password(pw, users[u].hashed_password)
    THEN [status |-> 401, detail |-> "Invalid credentials.",
          users |-> increment_login_attempts(u),
          redis |-> count_failed_login(r, rate_key), issue |-> 0]
    ELSE [status |-> 200, detail |-> "", users |-> reset_login_attempts(u),
          redis |-> r, issue |-> u]

\* login_user from the rate-limit check on, for the row u that
\* get_user_by_email returned. An exception no handler catches is answered
\* 500.
login_user_outcome(ip, u, pw) ==
    LET rate_key == RateKey(LOGIN_RATE_LIMIT_PREFIX, ip)
        c == call_check_rate_limit(redis, <<LOGIN_RATE_LIMIT_PREFIX, ip>>)
    IN  IF c.raised # ""
        THEN [status |-> 500, detail |-> c.raised,
              users |-> users, redis |-> redis, issue |-> 0]
        ELSE IF ~c.ok
        THEN [status |-> 429,
              detail |-> "Too many login attempts. Try again later.",
              users |-> users, redis |-> c.redis, issue |-> 0]
        ELSE login_checks(c.redis, rate_key, u, pw)

\* POST /auth/login
login_user(ip, raw, pw) ==
    LET email == Lower(Strip(EmailStr(raw)))
    IN  /\ attempts[ip] <= MAX_REQUESTS + 1
        /\ attempts' = [attempts EXCEPT ![ip] = @ + 1]
        /\ \E u \in First(get_user_by_email(email)) :
             LET out == login_user_outcome(ip, u, pw)
             IN  /\ users' = out.users
                 /\ redis' = out.redis
                 \* on success create_access_token({"sub": str(user.id)}) is
                 \* returned: one of the tokens issued to that user
                 /\ \E tk \in {0} \cup {j \in JTIs : out.issue # 0
                                        /\ IssuedToken(j).sub.v = out.issue} :
                      /\ (out.issue # 0) => (tk # 0)
                      /\ resp' = [Response("login", out.status, out.detail)
                                    EXCEPT !.ip = ip, !.email = raw, !.pw = pw,
                                           !.tok = tk, !.user = out.issue]
        /\ UNCHANGED <<now, inflight, loggedOut, activation_keys, calls>>

\* ---------------------------------------------------- services.auth_service
\* the arguments of handle_login's call of check_rate_limit, as the
\* signature of check_rate_limit asks for them
handle_login_rate_args_ip(ip) == <<ip>>

\* the arguments of handle_login's call: check_rate_limit(PREFIX, ip)
handle_login_rate_args(ip) == <<LOGIN_RATE_LIMIT_PREFIX, ip>>

\* handle_login once the row u (0: no row) came back from get_user_by_email
handle_login_checks(r, rate_key, u, pw) ==
    IF u = 0 \/ users[u].is_deleted
    THEN [status |-> 401, detail |-> "Invalid credentials.", users |-> users,
          redis |-> redis_expire(redis_incr(r, rate_key), rate_key,
                                 LOGIN_FAIL_EXPIRE),
          issue |-> 0]
    ELSE IF ~users[u].is_active
    THEN [status |-> 403, detail |-> "Inactive or unverified account.",
          users |-> users, redis |-> r, issue |-> 0]
    ELSE IF ~verify_password(pw, users[u].hashed_password)
    THEN [status |-> 401, detail |-> "Invalid credentials.",
          users |-> increment_login_attempts(u),
          redis |-> redis_expire(redis_incr(r, rate_key), rate_key,
                                 LOGIN_FAIL_EXPIRE),
          issue |-> 0]
    ELSE [status |-> 200, detail |-> "", users |-> reset_login_attempts(u),
          redis |-> r, issue |-> u]

\* handle_login from the rate-limit check on; the TypeError of the call
\* reaches the caller, a request that runs it is answered 500
handle_login_outcome(ip, u, pw) ==
    LET rate_key == RateKey(LOGIN_RATE_LIMIT_PREFIX, ip)
        c == call_check_rate_limit(redis, handle_login_rate_args(ip))
    IN  IF c.raised # ""
        THEN [status |-> 500, detail |-> c.raised,
              users |-> users, redis |-> redis, issue |-> 0]
        ELSE IF ~c.ok
        THEN [status |-> 429, detail |-> "Too many login attempts.",
              users |-> users, redis |-> c.redis, issue |-> 0]
        ELSE handle_login_checks(c.redis, rate_key, u, pw)

\* handle_login(db, payload, ip)
handle_login(ip, raw, pw) ==
    LET email == Lower(Strip(EmailStr(raw)))
    IN  \E u \in First(get_user_by_email(email)) :
          LET out == handle_login_outcome(ip, u, pw)
          IN  /\ users' = out.users
              /\ redis' = out.redis
              /\ \E tk \in {0} \cup {j \in JTIs : out.issue # 0
                                     /\ IssuedToken(j).sub.v = out.issue} :
                   /\ (out.issue # 0) => (tk # 0)
                   /\ resp' = [Response("handle_login", out.status,
                                        out.detail)
                                 EXCEPT !.ip = ip, !.email = raw, !.pw = pw,
                                        !.tok = tk, !.user = out.issue]
              /\ UNCHANGED <<now, inflight, loggedOut, attempts,
                             activation_keys, calls>>

\* a password as the strength check sees it: its length and whether it has
\* a character of [a-z], of [A-Z], of \d and of the special-character set
PasswordLengths == {7, 8}
PasswordShapes ==
    [len : PasswordLengths, lower : BOOLEAN, upper : BOOLEAN,
     digit : BOOLEAN, special : BOOLEAN]

\* validate_password_strength: five early returns of False, then True
validate_password_strength(p) ==
    IF p.len < 8 THEN FALSE
    ELSE IF ~p.lower THEN FALSE
    ELSE IF ~p.upper THEN FALSE
    ELSE IF ~p.digit THEN FALSE
    ELSE IF ~p.special THEN FALSE
    ELSE TRUE

\* UserRegisterRequest.password: Field(..., min_length=8, max_length=128)
password_field_valid(p) == p.len >= 8 /\ p.len <= 128

\* ---------------------------------------------------------------- register
\* check_honeypot_field that lets every value pass
honeypot_unchecked(value) == TRUE

\* check_honeypot_field(value): the header must be absent, "" or " "
check_honeypot_field(value) == value \in {"", "None", " "}

\* create_user reads payload.role_id and payload.active; UserRegisterRequest
\* declares email, password and full_name only, so the read raises
\* AttributeError before anything is added to the session.
create_user(email, pw) == Raise(500, "AttributeError")

\* what dns.resolver.resolve(domain, "MX") does: it returns the records, or
\* raises NXDOMAIN, NoAnswer, a timeout or another resolver error
MxLookups == {"records", "nxdomain", "noanswer", "timeout", "error"}

\* validate_email_mx: True when resolve returns, False on any Exception
validate_email_mx(lookup) == IF lookup = "records" THEN TRUE ELSE FALSE

\* send_activation_email prints the activation link; mail = "fails" stands
\* for a print that raises (the handler does not catch it)
send_activation_email(mail) ==
    IF mail = "fails" THEN Raise(500, "OSError") ELSE Ok(0)

\* the end of the handler: create_user, create_activation_token,
\* send_activation_email, then the 201 response
register_tail(email, pw, mail) ==
    LET u == create_user(email, pw)
        m == send_activation_email(mail)
    IN  IF ~u.ok THEN u
        ELSE IF ~m.ok THEN m
        ELSE [Ok(u.val) EXCEPT !.status = 201]

\* POST /auth/register, by its checks in order; the request carries the
\* honeypot header, whether the domain is on the disposable list, whether
\* its MX lookup succeeds and whether the password passes the strength check
\* and whether the activation mail can be sent
register_outcome_mail(ip, raw, honeypot, disposable, mx, strong, pw, mail) ==
    LET email == Lower(Strip(EmailStr(raw)))
        c == call_check_rate_limit(redis, <<REGISTER_RATE_LIMIT_PREFIX, ip>>)
    IN  IF ~check_honeypot_field(honeypot)
        THEN [status |-> 400, detail |-> "Bot activity detected.",
              redis |-> redis]
        ELSE IF c.raised # ""
        THEN [status |-> 500, detail |-> c.raised, redis |-> redis]
        ELSE IF ~c.ok
        THEN [status |-> 429, detail |-> "Too many requests from this IP.",
              redis |-> c.redis]
        ELSE IF disposable
        THEN [status |-> 400,
              detail |-> "Disposable email addresses are not allowed.",
              redis |-> c.redis]
        ELSE IF ~mx
        THEN [status |-> 400,
              detail |-> "Invalid email domain (MX check failed).",
              redis |-> c.redis]
        ELSE IF get_user_by_email(email) # {}
        THEN [status |-> 409, detail |-> "Email already registered.",
              redis |-> c.redis]
        ELSE IF ~strong
        THEN [status |-> 422, detail |-> "Password is too weak.",
              redis |-> c.redis]
        ELSE [status |-> register_tail(email, pw, mail).status,
              detail |-> register_tail(email, pw, mail).detail,
              redis |-> c.redis]

\* the handler when the activation mail can be sent
register_outcome(ip, raw, honeypot, disposable, mx, strong, pw) ==
    register_outcome_mail(ip, raw, honeypot, disposable, mx, strong, pw,
                          "sent")

register_user(ip, raw, honeypot, disposable, mx, strong, pw) ==
    LET out == register_outcome(ip, raw, honeypot, disposable, mx, strong, pw)
    IN  /\ redis' = out.redis
        /\ resp' = [Response("register", out.status, out.detail)
                      EXCEPT !.ip = ip, !.email = raw, !.pw = pw]
        /\ UNCHANGED <<users, now, inflight, loggedOut, attempts,
                       activation_keys, calls>>

\* POST /auth/register when sending the activation mail may fail
register_user_mail(ip, raw, honeypot, disposable, mx, strong, pw, mail) ==
    LET out == register_outcome_mail(ip, raw, honeypot, disposable, mx,
                                     strong, pw, mail)
    IN  /\ redis' = out.redis
        /\ resp' = [Response("register", out.status, out.detail)
                      EXCEPT !.ip = ip, !.email = raw, !.pw = pw]
        /\ UNCHANGED <<users, now, inflight, loggedOut, attempts,
                       activation_keys, calls>>

\* POST /auth/register with a password of shape p: the body is validated
\* against UserRegisterRequest before the handler runs (422 from FastAPI)
post_register(ip, raw, honeypot, disposable, mx, p) ==
    IF password_field_valid(p)
    THEN register_user(ip, raw, honeypot, disposable, mx,
                       validate_password_strength(p), 1)
    ELSE /\ resp' = [Response("register", 422, "validation error")
                       EXCEPT !.ip = ip, !.email = raw, !.pw = 1]
         /\ UNCHANGED <<users, redis, now, inflight, loggedOut, attempts,
                        activation_keys, calls>>

\* ------------------------------------------------------------- admin routes
\* a PUT /users/{id} body: email NoEmail, is_active "unset", role_id 0 stand
\* for a field the body does not set (user_update.dict(exclude_unset=True))
Update(email, active, role) ==
    [email |-> email, is_active |-> active, role_id |-> role]

\* for field, value in update_data.items(): setattr(user, field, value)
apply_update(row, upd) ==
    [row EXCEPT
        !.email = IF upd.email = NoEmail THEN @ ELSE EmailStr(upd.email),
        !.is_active = IF upd.is_active = "unset" THEN @
                      ELSE upd.is_active = "true",
        !.role_id = IF upd.role_id = 0 THEN @ ELSE upd.role_id]

\* db.commit() fails with IntegrityError on a role_id that is no role and on
\* a second non-deleted row with the same email string: the unique index
\* uq_users_email_active is on the column email where not is_deleted
integrity_error(tbl, id) ==
    \/ RoleName(tbl[id].role_id) = "none"
    \/ /\ ~tbl[id].is_deleted
       /\ \E j \in DOMAIN tbl :
            j # id /\ ~tbl[j].is_deleted /\ tbl[j].email = tbl[id].email

\* the uniqueness check of the route: any row that get_user_by_email finds
email_taken(upd) ==
    upd.email # NoEmail /\ get_user_by_email(EmailStr(upd.email)) # {}

\* PUT /users/{id} up to its uniqueness check
update_checks(t, id, upd) ==
    LET a == require_admin(t)
    IN  IF ~a.ok THEN Raise(a.status, a.detail)
        ELSE IF ~(id \in DOMAIN users /\ ~users[id].is_deleted)
        THEN Raise(404, "User not found.")
        ELSE IF email_taken(upd)
        THEN Raise(409, "Email already registered.")
        ELSE Ok(id)

\* PUT /users/{id} from setattr to the commit, on the table as it is then
update_commit(id, upd) ==
    LET tbl == [users EXCEPT ![id] = apply_update(@, upd)]
    IN  IF integrity_error(tbl, id)
        THEN [ok |-> FALSE, status |-> 400, users |-> users,
              detail |-> "Invalid role_id or data constraint violation."]
        ELSE [ok |-> TRUE, status |-> 200, users |-> tbl, detail |-> ""]

UpdateResponse(tokid, principal, id, upd, status, detail) ==
    [Response("update", status, detail) EXCEPT
        !.tok = tokid, !.target = id, !.user = principal]

\* PUT /users/{id}, the request served without another one in between
update_user_profile(t, id, upd) ==
    LET c == update_checks(t, id, upd)
        w == update_commit(id, upd)
    IN  /\ users' = IF c.ok THEN w.users ELSE users
        /\ resp' = IF c.ok
                   THEN UpdateResponse(t.id, Principal(t), id, upd,
                                       w.status, w.detail)
                   ELSE UpdateResponse(t.id, Principal(t), id, upd,
                                       c.status, c.detail)
        /\ UNCHANGED <<redis, now, inflight, loggedOut, attempts,
                       activation_keys, calls>>

\* PUT /users/{id} served by worker k beside the other workers: the request
\* runs to its uniqueness check ...
update_begin(k, t, id, upd) ==
    LET c == update_checks(t, id, upd)
    IN  /\ inflight[k] = Idle
        /\ inflight' = IF c.ok
                       THEN [inflight EXCEPT ![k] =
                               [phase |-> "checked", tok |-> t.id, id |-> id,
                                email |-> upd.email,
                                is_active |-> upd.is_active,
                                role_id |-> upd.role_id]]
                       ELSE inflight
        /\ resp' = IF c.ok THEN resp
                   ELSE UpdateResponse(t.id, Principal(t), id, upd,
                                       c.status, c.detail)
        /\ UNCHANGED <<users, redis, now, loggedOut, attempts,
                       activation_keys, calls>>

\* ... and later applies the fields and commits
update_end(k) ==
    LET r == inflight[k]
        upd == Update(r.email, r.is_active, r.role_id)
        w == update_commit(r.id, upd)
    IN  /\ r.phase = "checked"
        /\ users' = w.users
        /\ resp' = UpdateResponse(r.tok, IssuedToken(r.tok).sub.v, r.id, upd,
                                  w.status, w.detail)
        /\ inflight' = [inflight EXCEPT ![k] = Idle]
        /\ UNCHANGED <<redis, now, loggedOut, attempts,
                       activation_keys, calls>>

\* the query of soft_delete_user without the filter on is_deleted
soft_delete_finds_deleted(target) == target \in DOMAIN users

\* soft_delete_user: the query for the row with this id that is not deleted
soft_delete_finds(target) ==
    target \in DOMAIN users /\ ~users[target].is_deleted

soft_delete_user(target) ==
    IF soft_delete_finds(target)
    THEN [users EXCEPT ![target].is_active = TRUE,
                       ![target].is_deleted = TRUE,
                       ![target].deleted_at = now]
    ELSE users

\* service_delete_user without the comparison of target and acting user
service_delete_user_any(target, acting) ==
    IF ~soft_delete_finds(target) THEN Raise(404, "User not found.")
    ELSE Ok(target)

service_delete_user(target, acting) ==
    IF target = acting THEN Raise(400, "Cannot delete yourself.")
    ELSE IF ~soft_delete_finds(target) THEN Raise(404, "User not found.")
    ELSE Ok(target)

\* DELETE /users/{id}: admins only, then service_delete_user
delete_user(t, target) ==
    LET a == require_admin(t)
        out == IF ~a.ok THEN Raise(a.status, a.detail)
               ELSE service_delete_user(target, a.val)
    IN  /\ users' = IF out.ok THEN soft_delete_user(target) ELSE users
        /\ resp' = [Response("delete", out.status, out.detail) EXCEPT
                        !.tok = t.id, !.target = target,
                        !.user = Principal(t)]
        /\ UNCHANGED <<redis, now, inflight, loggedOut, attempts,
                       activation_keys, calls>>

\* GET /users/: admins only; the rows that are not deleted
list_users_rows == {i \in DOMAIN users : ~users[i].is_deleted}

list_users(t) ==
    LET a == require_admin(t)
    IN  /\ resp' = [Response("list", a.status, a.detail) EXCEPT
                        !.tok = t.id, !.user = Principal(t),
                        !.target = IF a.ok THEN Cardinality(list_users_rows)
                                   ELSE 0]
        /\ UNCHANGED <<users, redis, now, inflight, loggedOut, attempts,
                       activation_keys, calls>>

\* GET /users/{user_id}: require_admin, then 404 for a row get_user_by_id
\* does not find, then 403 unless the caller is an admin or the user asked for
get_user_profile(t, user_id) ==
    LET a == require_admin(t)
        out == IF ~a.ok THEN Raise(a.status, a.detail)
               ELSE IF get_user_by_id(user_id) = {}
               THEN Raise(404, "User not found")
               ELSE IF ~(RoleName(users[a.val].role_id) = "admin"
                           \/ a.val = user_id)
               THEN Raise(403, "Access denied")
               ELSE Ok(user_id)
    IN  /\ resp' = [Response("profile", out.status, out.detail) EXCEPT
                        !.tok = t.id, !.user = Principal(t),
                        !.target = user_id]
        /\ UNCHANGED <<users, redis, now, inflight, loggedOut, attempts,
                       activation_keys, calls>>

\* -------------------------------------------------------- activation keys
\* ActivationKey.__table_args__: UniqueConstraint("user_id"); the column key
\* is unique as well
activation_integrity_error(tbl) ==
    \E i, j \in DOMAIN tbl :
        i # j /\ (tbl[i].user_id = tbl[j].user_id \/ tbl[i].key = tbl[j].key)

\* create_activation_token: the UPDATE that deactivates the user's active
\* keys, the new row under a fresh random key, db.commit(). A commit that
\* violates a constraint raises IntegrityError, which nothing catches: the
\* transaction, the UPDATE included, is rolled back.
create_activation_token(user_id) ==
    LET deactivated ==
            [i \in DOMAIN activation_keys |->
                IF activation_keys[i].user_id = user_id
                     /\ activation_keys[i].is_active
                THEN [activation_keys[i] EXCEPT !.is_active = FALSE]
                ELSE activation_keys[i]]
        activation ==
            [user_id |-> user_id, key |-> Len(activation_keys) + 1,
             expires_at |-> now + ACTIVATION_TTL_MINUTES * 60,
             is_active |-> TRUE]
        tbl == Append(deactivated, activation)
        failed == activation_integrity_error(tbl)
    IN  /\ activation_keys' = IF failed THEN activation_keys ELSE tbl
        /\ resp' = [Response("activation", IF failed THEN 500 ELSE 200,
                             IF failed THEN "IntegrityError" ELSE "")
                      EXCEPT !.target = user_id]
        /\ UNCHANGED <<users, redis, now, inflight, loggedOut, attempts,
                       calls>>

\* one second passes
Tick ==
    /\ now < MaxTime
    /\ now' = now + 1
    /\ redis' = redis_purge(redis, now + 1)
    /\ UNCHANGED <<users, resp, inflight, loggedOut, attempts,
                   activation_keys, calls>>

\* ---------------------------------------------------------- specifications
\* request bodies
SwitchUpdates == {Update(NoEmail, a, 0) : a \in {"true", "false"}}
EmailUpdates ==
    {Update(Email(a, f), "unset", 0) : a \in Addrs, f \in {"plain", "upper"}}
IssuedTokens == {IssuedToken(j) : j \in JTIs}

\* the token life cycle: requests with tokens, admin changes of the users
Next ==
    \/ \E t \in Tokens \cup OddTokens \cup {MalformedToken} : get_me(t)
    \/ \E t \in Tokens \cup OddTokens \cup {MalformedToken} : logout_user(t)
    \/ \E t \in IssuedTokens, lost \in {"get", "setex"} :
         logout_user_unreachable(t, lost)
    \/ \E t \in Tokens, id \in UserIds, upd \in SwitchUpdates :
         update_user_profile(t, id, upd)
    \/ \E t \in Tokens, id \in UserIds : delete_user(t, id)
    \/ Tick

Spec == Init /\ [][Next]_vars

\* logins and registrations against a changing user table
NextLogin ==
    \/ \E ip \in IPs, raw \in RawEmails, pw \in Passwords :
         login_user(ip, raw, pw)
    \/ \E ip \in IPs, raw \in RawEmails, hp \in {"", "gotcha"} :
         register_user(ip, raw, hp, FALSE, TRUE, TRUE, 1)
    \/ \E t \in IssuedTokens : get_me(t)
    \/ \E t \in IssuedTokens, id \in UserIds, upd \in SwitchUpdates :
         update_user_profile(t, id, upd)
    \/ \E t \in IssuedTokens, id \in UserIds : delete_user(t, id)

SpecLogin == Init /\ [][NextLogin]_vars

\* the user table under concurrent admin email updates and soft deletes
NextStore ==
    \/ \E k \in Workers, id \in UserIds, upd \in EmailUpdates :
         update_begin(k, IssuedToken(1), id, upd)
    \/ \E k \in Workers : update_end(k)
    \/ \E id \in UserIds : delete_user(IssuedToken(1), id)
    \/ \E ip \in IPs, a \in Addrs :
         register_user(ip, Email(a, "plain"), "", FALSE, TRUE, TRUE, 1)

SpecStore == Init /\ [][NextStore]_vars

\* registrations with every combination of passing and failing checks; the
\* honeypot header is empty, absent ("None") or filled
HoneypotValues == {"", "None", "gotcha"}

NextRegister ==
    \/ \E ip \in IPs, raw \in RawEmails, hp \in HoneypotValues,
          disposable, mx, strong \in BOOLEAN :
         register_user(ip, raw, hp, disposable, mx, strong, 1)
    \/ \E id \in UserIds, upd \in SwitchUpdates :
         update_user_profile(IssuedToken(1), id, upd)
    \/ \E id \in UserIds : delete_user(IssuedToken(1), id)

SpecRegister == Init /\ [][NextRegister]_vars

\* registrations with passwords of every shape, the other checks passing
NextPassword ==
    \/ \E ip \in IPs, raw \in RawEmails, hp \in {"", "gotcha"},
          p \in PasswordShapes :
         post_register(ip, raw, hp, FALSE, TRUE, p)
    \/ \E id \in UserIds, upd \in SwitchUpdates :
         update_user_profile(IssuedToken(1), id, upd)
    \/ \E id \in UserIds : delete_user(IssuedToken(1), id)

SpecPassword == Init /\ [][NextPassword]_vars

\* the admin routes called by admins and by other users, while updates
\* grant and withdraw the admin role
RoleUpdates ==
    {Update(NoEmail, "unset", r) : r \in {ADMIN_ROLE_ID, DEFAULT_ROLE_ID}}
AdminUpdates == SwitchUpdates \cup RoleUpdates

NextAdmin ==
    \/ \E t \in IssuedTokens : list_users(t)
    \/ \E t \in IssuedTokens, id \in UserIds : get_user_profile(t, id)
    \/ \E t \in IssuedTokens, id \in UserIds, upd \in AdminUpdates :
         update_user_profile(t, id, upd)
    \/ \E t \in IssuedTokens, id \in UserIds \cup {NUsers + 1} :
         delete_user(t, id)
    \/ Tick

SpecAdmin == Init /\ [][NextAdmin]_vars

\* registrations whose activation mail is sent or fails to be sent
MailOutcomes == {"sent", "fails"}

NextMail ==
    \/ \E ip \in IPs, raw \in RawEmails, hp \in {"", "gotcha"},
          mail \in MailOutcomes :
         register_user_mail(ip, raw, hp, FALSE, TRUE, TRUE, 1, mail)
    \/ \E id \in UserIds, upd \in SwitchUpdates :
         update_user_profile(IssuedToken(1), id, upd)
    \/ \E id \in UserIds : delete_user(IssuedToken(1), id)

SpecMail == Init /\ [][NextMail]_vars

\* logouts on hosts in time zones behind, at and ahead of UTC (an offset of
\* 1 stands for an hour, as a second of the clock stands for a stretch of
\* the token lifetime)
TzOffsets == {-1, 0, 1}

NextTz ==
    \/ \E t \in IssuedTokens : get_me(t)
    \/ \E t \in IssuedTokens, off \in TzOffsets : logout_user_at(t, off)
    \/ \E t \in IssuedTokens, id \in UserIds, upd \in SwitchUpdates :
         update_user_profile(t, id, upd)
    \/ Tick

SpecTz == Init /\ [][NextTz]_vars

\* users who hold two tokens each
TwinTokens == {TwinToken(j) : j \in JTIs}

NextTwin ==
    \/ \E t \in IssuedTokens \cup TwinTokens : get_me(t)
    \/ \E t \in IssuedTokens \cup TwinTokens : logout_user(t)
    \/ \E id \in UserIds, upd \in SwitchUpdates :
         update_user_profile(IssuedToken(1), id, upd)
    \/ Tick

SpecTwin == Init /\ [][NextTwin]_vars

\* activation keys created again and again for the users
NextActivation ==
    \/ \E id \in UserIds : create_activation_token(id)
    \/ \E id \in UserIds, upd \in SwitchUpdates :
         update_user_profile(IssuedToken(1), id, upd)
    \/ Tick

SpecActivation == Init /\ [][NextActivation]_vars

\* check_rate_limit called with an IP by several workers at once
NextLimiter ==
    \/ \E k \in Workers, ip \in IPs : check_rate_limit_get(k, ip)
    \/ \E k \in Workers : check_rate_limit_incr(k)
    \/ Tick

SpecLimiter == Init /\ [][NextLimiter]_vars

\* failed logins of one user counted by several workers at once
NextAttempts ==
    \/ \E k \in Workers, u \in UserIds : increment_login_attempts_load(k, u)
    \/ \E k \in Workers : increment_login_attempts_commit(k)
    \/ \E u \in UserIds : reset_login_attempts_commit(u)

SpecAttempts == Init /\ [][NextAttempts]_vars

\* logins through the route and through the service, beside admin changes
NextService ==
    \/ \E ip \in IPs, raw \in RawEmails, pw \in Passwords :
         login_user(ip, raw, pw)
    \/ \E ip \in IPs, raw \in RawEmails, pw \in Passwords :
         handle_login(ip, raw, pw)
    \/ \E id \in UserIds, upd \in SwitchUpdates :
         update_user_profile(IssuedToken(1), id, upd)
    \/ \E id \in UserIds : delete_user(IssuedToken(1), id)

SpecService == Init /\ [][NextService]_vars

\* ------------------------------------------------------------------ claims
\* a request to an endpoint behind get_current_user that presents token t
AuthRequest(t) ==
    \/ get_me(t)
    \/ logout_user(t)
    \/ \E id \in UserIds, upd \in SwitchUpdates : update_user_profile(t, id, upd)
    \/ \E id \in UserIds : delete_user(t, id)

\* a login request whose email matches, after strip().lower(), the row u
LoginFor(ip, raw, pw, u) ==
    /\ login_user(ip, raw, pw)
    /\ u \in get_user_by_email(Lower(Strip(EmailStr(raw))))

\* C1: a token issued to a user who can authenticate is answered 200 by
\* GET /auth/me until a logout with it succeeded, and once a logout with it
\* was answered 204 every request that presents it is answered 401 for as
\* long as its signature and expiry are still accepted.
RevokedUntilExpiry ==
    [][\A t \in IssuedTokens :
         /\ (get_me(t) /\ t.id \notin loggedOut /\ ~jwt_decode_fails(t)
               /\ get_user_by_id(t.sub.v) # {}) => resp'.status = 200
         /\ (AuthRequest(t) /\ t.id \in loggedOut /\ ~jwt_decode_fails(t))
               => resp'.status = 401]_vars

\* C2: a request resolves its token to a principal only if the token's
\* signature verifies, its expiry has not passed and its jti is not on the
\* blacklist.
OnlyValidTokensAuthenticate ==
    [][\A t \in Tokens :
         (AuthRequest(t) /\ resp'.user # 0)
            => /\ t.sig = "ok"
               /\ ~(t.exp < now)
               /\ BlacklistKey(t.jti) \notin DOMAIN redis]_vars

\* a token authenticated while another token's jti is on the blacklist
SomeTokenAuthenticates ==
    /\ resp.op = "me" /\ resp.status = 200 /\ resp.user # 0
    /\ \E j \in JTIs : j # resp.tok /\ BlacklistKey(j) \in DOMAIN redis

\* C3: a logout with a correctly signed, unexpired token of a user who can
\* authenticate is answered 204 also when an earlier logout with the same
\* token was answered 204, and it leaves the same keys on the blacklist.
LogoutIdempotent ==
    [][\A t \in IssuedTokens :
         (logout_user(t) /\ t.id \in loggedOut /\ ~jwt_decode_fails(t)
            /\ get_user_by_id(t.sub.v) # {})
            => (resp'.status = 204 /\ DOMAIN redis' = DOMAIN redis)]_vars

\* C4: the login attempt number MAX_REQUESTS + 1 from one IP within one
\* window is answered 429, whatever credentials the attempts carried.
NextLoginAttemptLimited ==
    (resp.op = "login" /\ attempts[resp.ip] = MAX_REQUESTS + 1)
        => resp.status = 429

\* C5: once an IP has made MAX_REQUESTS login attempts within the window,
\* every further attempt from it is answered 429 until the window elapses.
EveryFurtherAttemptLimited ==
    \A ip \in IPs :
        (resp.op = "login" /\ resp.ip = ip /\ attempts[ip] > MAX_REQUESTS)
            => resp.status = 429

\* C6: a soft-deleted user does not authenticate: a login with the user's
\* email and password yields no token, and a request that presents a token
\* issued to the user is answered 401.
DeletedNeverAuthenticates ==
    [][/\ \A t \in IssuedTokens :
            (AuthRequest(t) /\ users[t.sub.v].is_deleted)
                => (resp'.status = 401 /\ resp'.user = 0)
       /\ \A ip \in IPs, raw \in RawEmails, pw \in Passwords, u \in UserIds :
            (LoginFor(ip, raw, pw, u) /\ users[u].is_deleted
               /\ verify_password(pw, users[u].hashed_password))
                => (resp'.status # 200 /\ resp'.tok = 0)]_vars

\* a soft-deleted user's token was presented and answered 401
DeletedUserRejected ==
    /\ resp.op = "me" /\ resp.status = 401
    /\ resp.tok \in JTIs /\ users[IssuedToken(resp.tok).sub.v].is_deleted

\* C7: a login for a user whose is_active is false (and who is not deleted)
\* is answered 403 and issues no token.
InactiveLoginForbidden ==
    [][\A ip \in IPs, raw \in RawEmails, pw \in Passwords, u \in UserIds :
         (LoginFor(ip, raw, pw, u) /\ attempts[ip] < MAX_REQUESTS
            /\ ~users[u].is_deleted /\ ~users[u].is_active)
            => (resp'.status = 403 /\ resp'.tok = 0)]_vars

\* C8: a wrong-password login for an existing active user, below the rate
\* limit, adds one to the user's login_attempts; a login with the right
\* password sets it to 0 and stamps last_login.
FailedLoginCounted ==
    [][\A ip \in IPs, raw \in RawEmails, pw \in Passwords, u \in UserIds :
         (LoginFor(ip, raw, pw, u) /\ attempts[ip] < MAX_REQUESTS
            /\ ~users[u].is_deleted /\ users[u].is_active)
            => IF verify_password(pw, users[u].hashed_password)
               THEN /\ users'[u].login_attempts = 0
                    /\ users'[u].last_login = now
               ELSE users'[u].login_attempts = users[u].login_attempts + 1
      ]_vars

\* C9: a registration that passes the pipeline and whose normalized email
\* is held by soft-deleted rows only is answered 201.
DeletedEmailReusable ==
    [][\A ip \in IPs, raw \in RawEmails :
         LET held == get_user_by_email(Lower(Strip(EmailStr(raw))))
         IN  (register_user(ip, raw, "", FALSE, TRUE, TRUE, 1)
                /\ held # {} /\ \A u \in held : users[u].is_deleted)
                => resp'.status = 201]_vars

\* C10: no two rows that are not deleted hold the same normalized
\* (lower-cased, trimmed) email.
OneLiveRowPerEmail ==
    \A i, j \in DOMAIN users :
        (i # j /\ ~users[i].is_deleted /\ ~users[j].is_deleted)
            => Lower(Strip(users[i].email)) # Lower(Strip(users[j].email))

\* C14: a logout with a valid token that is processed while Redis is
\* unreachable is answered 503.
UnreachableStoreIs503 ==
    [][\A t \in IssuedTokens, lost \in {"get", "setex"} :
         (logout_user_unreachable(t, lost) /\ get_current_user(t).ok)
            => resp'.status = 503]_vars

\* C15: a request to /auth/me or /auth/logout whose token fails validation
\* (bad signature, expired, revoked, no jti, no or non-numeric sub, unknown
\* or inactive user) is answered 401.
InvalidTokenIs401 ==
    [][\A t \in Tokens \cup OddTokens :
         ((get_me(t) \/ logout_user(t)) /\ ~get_current_user(t).ok)
            => resp'.status = 401]_vars

DecodeRejectsRevoked ==
    \A t \in IssuedTokens :
        (BlacklistKey(t.jti) \in DOMAIN redis /\ ~jwt_decode_fails(t))
            => (~decode_access_token(t).ok
                  /\ decode_access_token(t).status = 401)

\* C16: a login, below the rate limit, whose email belongs to no user, to
\* a soft-deleted user or to an active user with another password is
\* answered 401 with the one detail "Invalid credentials.".
LoginFailuresAlike ==
    [][\A ip \in IPs, raw \in RawEmails, pw \in Passwords :
         LET found == get_user_by_email(Lower(Strip(EmailStr(raw))))
         IN  (login_user(ip, raw, pw) /\ attempts[ip] < MAX_REQUESTS
                /\ \A u \in found :
                     \/ users[u].is_deleted
                     \/ /\ users[u].is_active
                        /\ ~verify_password(pw, users[u].hashed_password))
                => (resp'.status = 401
                      /\ resp'.detail = "Invalid credentials.")]_vars

\* C18: a login response carries an access token exactly when the IP is
\* below the rate limit, the normalized email matches a user that is not
\* deleted, the user is active and the password verifies.
TokenIffAllChecksPass ==
    [][\A ip \in IPs, raw \in RawEmails, pw \in Passwords :
         LET found == get_user_by_email(Lower(Strip(EmailStr(raw))))
             passes == /\ attempts[ip] < MAX_REQUESTS
                       /\ \E u \in found :
                            /\ ~users[u].is_deleted /\ users[u].is_active
                            /\ verify_password(pw, users[u].hashed_password)
         IN  login_user(ip, raw, pw) => (passes <=> resp'.tok # 0)]_vars

\* the registrations of NextRegister
RegisterInputs ==
    {<<ip, raw, hp, d, m, st>> :
        ip \in IPs, raw \in RawEmails, hp \in HoneypotValues,
        d \in BOOLEAN, m \in BOOLEAN, st \in BOOLEAN}

\* the details the pipeline may answer with when its checks run in the order
\* honeypot, rate limit, disposable, MX, uniqueness, password strength and
\* the first violated check decides ("" for a registration that succeeds)
FirstViolation(raw, hp, d, m, st) ==
    IF ~check_honeypot_field(hp) THEN {"Bot activity detected."}
    ELSE {"Too many requests from this IP."} \cup
         (IF d THEN {"Disposable email addresses are not allowed."}
          ELSE IF ~m THEN {"Invalid email domain (MX check failed)."}
          ELSE IF get_user_by_email(Lower(Strip(EmailStr(raw)))) # {}
          THEN {"Email already registered."}
          ELSE IF ~st THEN {"Password is too weak."}
          ELSE {""})

\* C11: a registration that passes every check up to the uniqueness
\* pre-check is answered 201 or, when the store rejects the row, 409.
RegisterCreatedOrConflict ==
    [][\A ip \in IPs, raw \in RawEmails :
         (register_user(ip, raw, "", FALSE, TRUE, TRUE, 1)
            /\ get_user_by_email(Lower(Strip(EmailStr(raw)))) = {})
            => resp'.status \in {201, 409}]_vars

\* C12: a registration is answered with the error of the first check it
\* violates, in the order honeypot, rate limit, disposable, MX, uniqueness,
\* password strength.
RegisterFirstViolationWins ==
    [][\A x \in RegisterInputs :
         register_user(x[1], x[2], x[3], x[4], x[5], x[6], 1)
            => resp'.detail \in FirstViolation(x[2], x[3], x[4], x[5], x[6])
      ]_vars

\* C13: a registration whose honeypot header is filled is answered 400 and
\* leaves Redis (the rate counters) and the users table as they were.
HoneypotNoSideEffects ==
    [][\A hp \in HoneypotValues \ {"", "None"}, d, m, st \in BOOLEAN :
         (resp'.op = "register"
            /\ register_user(resp'.ip, resp'.email, hp, d, m, st, 1))
            => (resp'.status = 400 /\ redis' = redis /\ users' = users)
      ]_vars

\* a registration was rejected by the honeypot check
HoneypotRejected ==
    /\ resp.op = "register" /\ resp.status = 400
    /\ resp.detail = "Bot activity detected."

\* C17: a registration with any case/whitespace variant of a free address
\* is answered 201 and stores the lower-cased, trimmed address.
RegisterStoresNormalized ==
    [][\A ip \in IPs, raw \in RawEmails :
         (register_user(ip, raw, "", FALSE, TRUE, TRUE, 1)
            /\ get_user_by_email(Lower(Strip(EmailStr(raw)))) = {})
            => /\ resp'.status = 201
               /\ \E u \in DOMAIN users' :
                    users'[u].email = Lower(Strip(raw))]_vars

\* C21: the password-strength check accepts a password exactly when it has
\* 8 or more characters, a lowercase letter, an uppercase letter, a digit
\* and a special character; a registration with a free address that passes
\* the other checks and whose password fails the check is answered 422 and
\* stores no user.
WeakPasswordIs422 ==
    [][/\ \A p \in PasswordShapes :
            validate_password_strength(p)
                <=> (p.len >= 8 /\ p.lower /\ p.upper /\ p.digit /\ p.special)
       /\ \A p \in PasswordShapes :
            (resp'.op = "register"
               /\ post_register(resp'.ip, resp'.email, "", FALSE, TRUE, p)
               /\ get_user_by_email(Lower(Strip(EmailStr(resp'.email)))) = {}
               /\ ~validate_password_strength(p))
                => (resp'.status = 422 /\ users' = users)]_vars

\* a request with token t to one of the admin-only routes
AdminRequest(t) ==
    \/ list_users(t)
    \/ get_user_profile(t, resp'.target)
    \/ \E upd \in AdminUpdates : update_user_profile(t, resp'.target, upd)
    \/ delete_user(t, resp'.target)

MailFailureKeepsUser ==
    [][(resp'.op = "register"
          /\ register_user_mail(resp'.ip, resp'.email, "", FALSE, TRUE, TRUE,
                                1, "fails")
          /\ get_user_by_email(Lower(Strip(EmailStr(resp'.email)))) = {})
         => \E u \in DOMAIN users' :
              /\ users'[u].email = Lower(Strip(resp'.email))
              /\ ~users'[u].is_deleted]_vars

\* the statuses a login may be answered with when its checks run in the
\* order rate limit, credential lookup, active check, password check, token
\* issue and the first failing check decides
LoginFirstFailure(raw, pw) ==
    {429} \cup
    {IF u = 0 \/ users[u].is_deleted THEN 401
     ELSE IF ~users[u].is_active THEN 403
     ELSE IF ~verify_password(pw, users[u].hashed_password) THEN 401
     ELSE 200 : u \in First(get_user_by_email(Lower(Strip(EmailStr(raw)))))}

\* C25: a login is answered by the first check that fails, in the order
\* rate limit (429), credential lookup (401), active check (403), password
\* check (401), and with 200 when none fails; so an inactive account gets
\* 403 or 429 whatever the password, never 401 or 200.
LoginFirstFailureWins ==
    [][(resp'.op = "login" /\ login_user(resp'.ip, resp'.email, resp'.pw))
         => resp'.status \in LoginFirstFailure(resp'.email, resp'.pw)]_vars

limiter_count(r, ip) == redis_get(r, RateKey("rl:", ip))

\* C27: a login, below the rate limit, whose email matches no row or a
\* soft-deleted row, or whose password is wrong for an active row, raises
\* the count that the login rate-limit check reads for its IP.
FailedLoginCountsTowardLimit ==
    [][(resp'.op = "login" /\ login_user(resp'.ip, resp'.email, resp'.pw)
          /\ attempts[resp'.ip] < MAX_REQUESTS
          /\ \A u \in get_user_by_email(Lower(Strip(EmailStr(resp'.email)))) :
               \/ users[u].is_deleted
               \/ /\ users[u].is_active
                  /\ ~verify_password(resp'.pw, users[u].hashed_password))
         => limiter_count(redis', resp'.ip) > limiter_count(redis, resp'.ip)
      ]_vars

BlacklistTtlIsRemainingLife ==
    [][\A t \in IssuedTokens, off \in TzOffsets :
         (resp'.op = "logout" /\ resp'.tok = t.id /\ logout_user_at(t, off))
            => /\ redis' # redis
                    => /\ t.exp - now > 0
                       /\ redis'[BlacklistKey(t.jti)].ttl_end - now
                            = t.exp - now
               /\ \A j \in JTIs :
                    BlacklistKey(j) \in DOMAIN redis'
                        => redis'[BlacklistKey(j)].ttl_end
                             <= IssuedToken(j).exp]_vars

\* C30: a logout with a token that is expired, malformed or wrongly signed
\* is answered 401 by the dependency and leaves the blacklist and the set of
\* logged-out tokens as they were.
InvalidTokenNeverLogsOut ==
    [][\A t \in Tokens \cup {MalformedToken} :
         (resp'.op = "logout" /\ resp'.tok = t.id /\ logout_user(t)
            /\ (t.sig # "ok" \/ t.exp < now))
            => /\ resp'.status = 401
               /\ redis' = redis
               /\ loggedOut' = loggedOut]_vars

\* an issued token was presented to logout after its expiry, never having
\* been logged out, and was answered 401
ExpiredLogoutRejected ==
    /\ resp.op = "logout" /\ resp.status = 401
    /\ resp.tok \in JTIs /\ resp.tok \notin loggedOut
    /\ IssuedToken(resp.tok).exp < resp.at

\* C31: a logout with one of two tokens of a user adds no key to the
\* blacklist but the one of that token's jti, changes no other key, leaves
\* the other token authenticating if it did before, and changes no user row.
LogoutRevokesOneToken ==
    [][\A t \in IssuedTokens \cup TwinTokens :
         (resp'.op = "logout" /\ resp'.tok = t.id /\ logout_user(t))
            => /\ users' = users
               /\ DOMAIN redis' \subseteq
                     DOMAIN redis \cup {BlacklistKey(t.jti)}
               /\ \A k \in DOMAIN redis :
                     k # BlacklistKey(t.jti)
                        => (k \in DOMAIN redis' /\ redis'[k] = redis[k])
               /\ \A t2 \in IssuedTokens \cup TwinTokens :
                     (t2.sub = t.sub /\ t2.jti # t.jti
                        /\ get_current_user(t2).ok)
                        => (get_current_user(t2).ok)']_vars

\* a user's second token authenticates while the first one is blacklisted
TwinStillAuthenticates ==
    /\ resp.op = "me" /\ resp.status = 200
    /\ \E j \in JTIs :
         /\ resp.tok = TwinToken(j).id
         /\ BlacklistKey(j) \in DOMAIN redis
         /\ BlacklistKey(TwinToken(j).jti) \notin DOMAIN redis

SoftDeleteTouchesTwoFields ==
    [][\A t \in IssuedTokens :
         (resp'.op = "delete" /\ resp'.tok = t.id
            /\ delete_user(t, resp'.target) /\ resp'.status = 200)
            => /\ DOMAIN users' = DOMAIN users
               /\ users' = [users EXCEPT
                              ![resp'.target].is_deleted = TRUE,
                              ![resp'.target].deleted_at = now]]_vars

OneActiveKeyTheNewest ==
    [][\A id \in UserIds :
         (resp'.op = "activation" /\ resp'.target = id
            /\ create_activation_token(id))
            => LET tbl == activation_keys'
                   active == {i \in DOMAIN tbl :
                                tbl[i].user_id = id /\ tbl[i].is_active}
               IN  /\ resp'.status = 200
                   /\ Len(tbl) = Len(activation_keys) + 1
                   /\ active = {Len(tbl)}]_vars

\* C36: every request that passes the rate-limit check adds one to the
\* counter of its IP, and under every interleaving of concurrent requests
\* from one IP at most MAX_REQUESTS pass within one window: the counter
\* never exceeds MAX_REQUESTS.
AtMostMaxRequestsPass ==
    \A ip \in IPs : limiter_count(redis, ip) <= MAX_REQUESTS

\* C37: no increment of login_attempts is lost under concurrency: every
\* increment_login_attempts that completes leaves the user's login_attempts
\* one higher than it was just before; and a reset that completes after
\* all of them leaves it at 0.
NoAttemptIncrementLost ==
    [][/\ \A k \in Workers :
            increment_login_attempts_commit(k)
               => users'[calls[k].user].login_attempts
                    = users[calls[k].user].login_attempts + 1
       /\ \A u \in UserIds :
            (resp'.op = "reset_login_attempts" /\ resp'.user = u
               /\ reset_login_attempts_commit(u))
               => users'[u].login_attempts = 0]_vars

\* the keys of rate-limit counters: the limiter's and the routes'
RateKeys ==
    {RateKey(prefix, ip) :
        prefix \in {"rl:", LOGIN_RATE_LIMIT_PREFIX, REGISTER_RATE_LIMIT_PREFIX},
        ip \in IPs}

\* C38: every rate-limit counter in Redis carries a TTL, a login answered
\* 429 leaves Redis as it was, and a login from an IP whose counter has
\* lapsed (or was never set) passes the rate-limit check: it is answered by
\* the credential checks, with 200, 401 or 403.
LapsedCounterServesAgain ==
    [][(resp'.op = "login" /\ login_user(resp'.ip, resp'.email, resp'.pw))
         => /\ \A k \in RateKeys \cap DOMAIN redis' : redis'[k].ttl_end # -1
            /\ resp'.status = 429 => redis' = redis
            /\ limiter_count(redis, resp'.ip) = 0
                 => resp'.status \in {200, 401, 403}]_vars

\* C39: a registration with an empty honeypot and a domain that is not
\* disposable, whose MX lookup ends in a resolver error or a timeout, is
\* answered 400 "Invalid email domain (MX check failed)." and stores no user.
ResolverErrorIs400 ==
    [][\A lookup \in {"timeout", "error"}, st \in BOOLEAN :
         (resp'.op = "register"
            /\ register_user(resp'.ip, resp'.email, "", FALSE,
                             validate_email_mx(lookup), st, 1))
            => /\ resp'.status = 400
               /\ resp'.detail = "Invalid email domain (MX check failed)."
               /\ users' = users]_vars

\* C40: handle_login and login_user are the same state machine: in every
\* state and for every request both end in the same outcome class (token,
\* 401, 403, 429 or failure) and make the same changes to the users table
\* and to the rate-limit counters; so do their checks behind the rate limit.
HandleLoginMatchesRoute ==
    [][(resp'.op = "handle_login"
          /\ handle_login(resp'.ip, resp'.email, resp'.pw))
         => \E u \in First(get_user_by_email(
                             Lower(Strip(EmailStr(resp'.email))))) :
              LET route == login_user_outcome(resp'.ip, u, resp'.pw)
                  key == RateKey(LOGIN_RATE_LIMIT_PREFIX, resp'.ip)
                  a == login_checks(redis, key, u, resp'.pw)
                  b == handle_login_checks(redis, key, u, resp'.pw)
              IN  /\ resp'.status = route.status
                  /\ (resp'.tok # 0) = (route.issue # 0)
                  /\ resp'.user = route.issue
                  /\ users' = route.users
                  /\ redis' = route.redis
                  \* and the checks behind the rate limit agree as well
                  /\ a.status = b.status /\ a.issue = b.issue
                  /\ a.users = b.users /\ a.redis = b.redis]_vars

\* handle_login was run with the address and the password of an active user
ServiceLoginOfActiveUser ==
    /\ resp.op = "handle_login"
    /\ \E u \in get_user_by_email(Lower(Strip(EmailStr(resp.email)))) :
         /\ users[u].is_active /\ ~users[u].is_deleted
         /\ verify_password(resp.pw, users[u].hashed_password)

====
